---- MODULE Spec2Model ----
(***************************************************************************)
(* LegalSimplify (src/src/App.jsx): the sentence splitter, the heuristic   *)
(* summariser with its glossary annotation, the keyword question answerer, *)
(* the risk list, and the session state held by the App component.         *)
(*                                                                         *)
(* A JavaScript string is a sequence of one-character strings, so that     *)
(* replace, split, trim, toLowerCase, includes and the regular expressions *)
(* are computed character by character as the code computes them.          *)
(***************************************************************************)
EXTENDS Integers, Sequences, FiniteSets, TLC

VARIABLES text, uploadedName, summaryPoints, chatLog, q, maxPoints, pending

vars == <<text, uploadedName, summaryPoints, chatLog, q, maxPoints, pending>>

(***************************************************************************)
(* Characters and the string primitives of the JavaScript runtime.         *)
(***************************************************************************)
UpperCase ==
  <<"A","B","C","D","E","F","G","H","I","J","K","L","M",
    "N","O","P","Q","R","S","T","U","V","W","X","Y","Z">>

LowerCase ==
  <<"a","b","c","d","e","f","g","h","i","j","k","l","m",
    "n","o","p","q","r","s","t","u","v","w","x","y","z">>

Digits == {"0","1","2","3","4","5","6","7","8","9"}

\* \s of the regular expressions and the set String.prototype.trim strips
IsSpace(c) == c \in {" ", "\n", "\t"}

UpperSet == {UpperCase[i] : i \in 1..26}

IsUpper(c) == c \in UpperSet

\* the sequence f, held as a tuple: the same value, whose elements are read
\* without evaluating the function that defines it again
Tuple(f) == f \o <<>>

\* the lower-case letter of each upper-case letter
LowerOf == [c \in UpperSet |-> LowerCase[CHOOSE i \in 1..26 : UpperCase[i] = c]]

toLowerChar(c) == IF IsUpper(c) THEN LowerOf[c] ELSE c

toLowerCase(s) == Tuple([i \in 1..Len(s) |-> toLowerChar(s[i])])

\* String.prototype.trim
\* the number of whitespace characters s starts with, and ends with
RECURSIVE leadingSpaces(_, _)
leadingSpaces(s, n) ==
  IF n < Len(s) /\ IsSpace(s[n + 1]) THEN leadingSpaces(s, n + 1) ELSE n

RECURSIVE trailingSpaces(_, _)
trailingSpaces(s, n) ==
  IF n < Len(s) /\ IsSpace(s[Len(s) - n]) THEN trailingSpaces(s, n + 1) ELSE n

trim(s) == SubSeq(s, leadingSpaces(s, 0) + 1, Len(s) - trailingSpaces(s, 0))

\* does k occur in s at position p
OccursAt(s, k, p) ==
  /\ p >= 1
  /\ p + Len(k) - 1 <= Len(s)
  /\ \A j \in 1..Len(k) : s[p + j - 1] = k[j]

\* String.prototype.includes
includes(s, k) == \E p \in 1..(Len(s) - Len(k) + 1) : OccursAt(s, k, p)

\* Array.prototype.join(" ")
RECURSIVE join(_)
join(ss) ==
  IF Len(ss) = 0 THEN <<>>
  ELSE IF Len(ss) = 1 THEN ss[1]
  ELSE ss[1] \o <<" ">> \o join(Tail(ss))

\* Array.prototype.slice(0, n)
slice(ss, n) == SubSeq(ss, 1, IF n < Len(ss) THEN n ELSE Len(ss))

(***************************************************************************)
(* splitSentences                                                          *)
(***************************************************************************)
\* .replace(/\n/g, " ")
replaceNewlines(s) == Tuple([i \in 1..Len(s) |-> IF s[i] = "\n" THEN " " ELSE s[i]])

\* [.!?] of the lookbehind
IsTerminator(c) == c \in {".", "!", "?"}

\* [A-Z0-9"'()] of the lookahead
IsSentenceStart(c) == IsUpper(c) \/ c \in Digits \/ c \in {"\"", "'", "(", ")"}

\* last position of the whitespace run that starts at p
RunEnd(s, p) ==
  CHOOSE e \in p..Len(s) :
    /\ \A j \in p..e : IsSpace(s[j])
    /\ e = Len(s) \/ ~IsSpace(s[e + 1])

\* a match of /(?<=[.!?])\s+(?=[A-Z0-9"'()])/ starts at p: \s+ is greedy and
\* the lookahead admits no whitespace, so the match is the whole run
SeparatorAt(s, p) ==
  /\ p > 1
  /\ IsTerminator(s[p - 1])
  /\ IsSpace(s[p])
  /\ RunEnd(s, p) < Len(s)
  /\ IsSentenceStart(s[RunEnd(s, p) + 1])

\* where the matches of the expression start
separators(s) == {p \in 1..Len(s) : SeparatorAt(s, p)}

Least(S) == CHOOSE x \in S : \A y \in S : x <= y

\* as piecesFrom, the character the lookahead tests being consumed as well
RECURSIVE piecesFromConsuming(_, _, _)
piecesFromConsuming(s, seps, from) ==
  IF seps = {} THEN <<SubSeq(s, from, Len(s))>>
  ELSE <<SubSeq(s, from, Least(seps) - 1)>>
         \o piecesFromConsuming(s, seps \ {Least(seps)}, RunEnd(s, Least(seps)) + 2)

\* the pieces of s from position `from` on, seps being the separators at or
\* after it: the text before the first match, then the pieces after the match
RECURSIVE piecesFrom(_, _, _)
piecesFrom(s, seps, from) ==
  IF seps = {} THEN <<SubSeq(s, from, Len(s))>>
  ELSE <<SubSeq(s, from, Least(seps) - 1)>>
         \o piecesFrom(s, seps \ {Least(seps)}, RunEnd(s, Least(seps)) + 1)

\* String.prototype.split on that expression
split(s) == piecesFrom(s, separators(s), 1)

mapTrim(ss) == Tuple([i \in 1..Len(ss) |-> trim(ss[i])])

\* Boolean(s) of a string
NonEmpty(s) == Len(s) > 0

splitSentences(t) == SelectSeq(mapTrim(split(replaceNewlines(t))), NonEmpty)

(***************************************************************************)
(* heuristicsSummary and the glossary substitution                         *)
(***************************************************************************)
keywords ==
  << <<"o","b","l","i","g","a","t","i","o","n">>,
     <<"s","h","a","l","l">>,
     <<"m","u","s","t">>,
     <<"l","i","a","b","i","l","i","t","y">>,
     <<"t","e","r","m","i","n","a","t","i","o","n">>,
     <<"c","o","n","f","i","d","e","n","t","i","a","l">>,
     <<"i","n","d","e","m","n","i","f","y">>,
     <<"w","a","r","r","a","n","t","y">>,
     <<"p","a","y","m","e","n","t">>,
     <<"f","e","e">>,
     <<"n","o","t","i","c","e">>,
     <<"f","o","r","c","e"," ","m","a","j","e","u","r","e">>,
     <<"d","i","s","p","u","t","e">>,
     <<"g","o","v","e","r","n","i","n","g"," ","l","a","w">>,
     <<"b","r","e","a","c","h">> >>

\* each rule: the strings its expression matches, in the order the matcher
\* tries them at one position, and the replacement text. Rule 1 is
\* force\s+majeure: its two words, joined by a whitespace run (ForceMajeureLen).
LEGAL_MAP ==
  <<
    \* /(force\s+majeure)/i, "unavoidable events (e.g., natural disaster)"
    [alts |->
       <<<<"f","o","r","c","e">>,
       <<"m","a","j","e","u","r","e">>>>,
     gloss |->
       <<"u","n","a","v","o","i","d","a","b","l","e"," ","e","v","e","n","t",
         "s"," ","(","e",".","g",".",","," ","n","a","t","u","r","a","l"," ",
         "d","i","s","a","s","t","e","r",")">>],
    \* /(indemnif(y|ies|ication))/i, "compensation if someone sues you"
    [alts |->
       <<<<"i","n","d","e","m","n","i","f","y">>,
       <<"i","n","d","e","m","n","i","f","i","e","s">>,
       <<"i","n","d","e","m","n","i","f","i","c","a","t","i","o","n">>>>,
     gloss |->
       <<"c","o","m","p","e","n","s","a","t","i","o","n"," ","i","f"," ","s",
         "o","m","e","o","n","e"," ","s","u","e","s"," ","y","o","u">>],
    \* /(waiver)/i, "giving up a right intentionally"
    [alts |->
       <<<<"w","a","i","v","e","r">>>>,
     gloss |->
       <<"g","i","v","i","n","g"," ","u","p"," ","a"," ","r","i","g","h","t",
         " ","i","n","t","e","n","t","i","o","n","a","l","l","y">>],
    \* /(jurisdicti(on|onal))/i, "which court's rules apply"
    [alts |->
       <<<<"j","u","r","i","s","d","i","c","t","i","o","n">>,
       <<"j","u","r","i","s","d","i","c","t","i","o","n","a","l">>>>,
     gloss |->
       <<"w","h","i","c","h"," ","c","o","u","r","t","'","s"," ","r","u","l",
         "e","s"," ","a","p","p","l","y">>],
    \* /(notwithstanding)/i, "despite the above"
    [alts |->
       <<<<"n","o","t","w","i","t","h","s","t","a","n","d","i","n","g">>>>,
     gloss |->
       <<"d","e","s","p","i","t","e"," ","t","h","e"," ","a","b","o","v","e">>],
    \* /(liabilit(y|ies))/i, "legal responsibility for harm"
    [alts |->
       <<<<"l","i","a","b","i","l","i","t","y">>,
       <<"l","i","a","b","i","l","i","t","i","e","s">>>>,
     gloss |->
       <<"l","e","g","a","l"," ","r","e","s","p","o","n","s","i","b","i","l",
         "i","t","y"," ","f","o","r"," ","h","a","r","m">>],
    \* /(confidential(ity)?)/i, "kept private"
    [alts |->
       <<<<"c","o","n","f","i","d","e","n","t","i","a","l","i","t","y">>,
       <<"c","o","n","f","i","d","e","n","t","i","a","l">>>>,
     gloss |->
       <<"k","e","p","t"," ","p","r","i","v","a","t","e">>],
    \* /(termination)/i, "ending the agreement"
    [alts |->
       <<<<"t","e","r","m","i","n","a","t","i","o","n">>>>,
     gloss |->
       <<"e","n","d","i","n","g"," ","t","h","e"," ","a","g","r","e","e","m",
         "e","n","t">>]
  >>

\* length of the match of /(force\s+majeure)/i at position p of the
\* lower-cased string l, 0 when there is none
ForceMajeureLen(l, p) ==
  LET w1 == LEGAL_MAP[1].alts[1]
      w2 == LEGAL_MAP[1].alts[2]
      b  == p + Len(w1)
  IN  IF OccursAt(l, w1, p) /\ b <= Len(l) /\ IsSpace(l[b])
        THEN IF OccursAt(l, w2, RunEnd(l, b) + 1)
               THEN RunEnd(l, b) + Len(w2) - p + 1
               ELSE 0
        ELSE 0

\* length of the match of rule r at position p of l: the first alternative
\* that matches there, 0 when none does
MatchLen(r, l, p) ==
  IF r = 1 THEN ForceMajeureLen(l, p)
  ELSE LET alts == LEGAL_MAP[r].alts
           hit  == {a \in 1..Len(alts) : OccursAt(l, alts[a], p)}
       IN  IF hit = {} THEN 0
           ELSE Len(alts[CHOOSE a \in hit : \A b \in hit : a <= b])

\* plain.replace(re, match => `${match} (${replacement})`): no g flag, so the
\* leftmost match alone is replaced
matchStarts(r, l) == {p \in 1..Len(l) : MatchLen(r, l, p) > 0}

\* the match ends at position e of plain: the gloss goes in right after it
insertGloss(plain, r, e) ==
  SubSeq(plain, 1, e) \o <<" ", "(">> \o LEGAL_MAP[r].gloss \o <<")">>
    \o SubSeq(plain, e + 1, Len(plain))

replaceFirst(plain, l, r, starts) ==
  IF starts = {} THEN plain
  ELSE insertGloss(plain, r, Least(starts) + MatchLen(r, l, Least(starts)) - 1)

replaceIn(plain, l, r) == replaceFirst(plain, l, r, matchStarts(r, l))

applyRule(plain, r) == replaceIn(plain, toLowerCase(plain), r)

\* LEGAL_MAP.forEach over the running value of plain, rules 1..r
RECURSIVE annotateUpTo(_, _)
annotateUpTo(sent, r) ==
  IF r = 0 THEN sent ELSE applyRule(annotateUpTo(sent, r - 1), r)

annotate(sent) == annotateUpTo(sent, Len(LEGAL_MAP))

KeywordWeight == 3

LongSentence == 120

VeryLongSentence == 250

\* number of distinct keywords the sentence includes, case-insensitively
keywordsIn(l) == {k \in 1..Len(keywords) : includes(l, keywords[k])}

keywordCount(sent) == Cardinality(keywordsIn(toLowerCase(sent)))

Max(a, b) == IF a >= b THEN a ELSE b

Min(a, b) == IF a <= b THEN a ELSE b

\* as score, a keyword counting 2
scoreKeywordTwo(sent, i, n) ==
  (2 * keywordCount(sent)
     + (IF Len(sent) > LongSentence THEN 1 ELSE 0)
     + (IF Len(sent) > VeryLongSentence THEN 1 ELSE 0)) * Max(1, n)
  + Max(0, Max(1, n) - i)

\* the score of the sentence at 0-based index i of n, times Max(1, n), so
\* that the positional bonus Max(0, 1 - i / Max(1, n)) stays an integer
score(sent, i, n) ==
  (KeywordWeight * keywordCount(sent)
     + (IF Len(sent) > LongSentence THEN 1 ELSE 0)
     + (IF Len(sent) > VeryLongSentence THEN 1 ELSE 0)) * Max(1, n)
  + Max(0, Max(1, n) - i)

\* scored.sort((a,b) => b.score - a.score): the 1-based sentence positions by
\* descending score, equal scores in their original order (the sort is stable)
scores(sents) == Tuple([j \in 1..Len(sents) |-> score(sents[j], j - 1, Len(sents))])

\* the place of the j-th entry after the sort: one more than the number of
\* entries that go before it
rank(sc, j) ==
  1 + Cardinality({k \in 1..Len(sc) : sc[k] > sc[j] \/ (sc[k] = sc[j] /\ k < j)})

sortByScore(sc) ==
  Tuple([r \in 1..Len(sc) |-> CHOOSE j \in 1..Len(sc) : rank(sc, j) = r])

sortedIndices(sents) == sortByScore(scores(sents))

\* as topAnnotated, the slice taking one entry too many
topAnnotatedOneMore(sents, order, points) ==
  Tuple([r \in 1..Min(points + 1, Len(order)) |-> annotate(sents[order[r]])])

\* scored.slice(0, Math.min(maxPoints, scored.length)), then the map
topAnnotated(sents, order, points) ==
  Tuple([r \in 1..Min(points, Len(order)) |-> annotate(sents[order[r]])])

\* as summaryOf, the slice ending one entry early
summaryOfOneLess(sents, points) ==
  IF Len(sents) = 0 THEN <<>>
  ELSE topAnnotated(sents, sortedIndices(sents), points - 1)

summaryOf(sents, points) ==
  IF Len(sents) = 0 THEN <<>>
  ELSE topAnnotated(sents, sortedIndices(sents), points)

heuristicsSummary(t, points) == summaryOf(splitSentences(t), points)

(***************************************************************************)
(* simpleChatAnswer and the risk list                                      *)
(***************************************************************************)
\* "Please ask a question about the uploaded document."
AskPrompt ==
  <<"P","l","e","a","s","e"," ","a","s","k"," ","a"," ","q","u","e","s","t",
    "i","o","n"," ","a","b","o","u","t"," ","t","h","e"," ","u","p","l","o",
    "a","d","e","d"," ","d","o","c","u","m","e","n","t",".">>

\* "No explicit termination clause found."
NoTermination ==
  <<"N","o"," ","e","x","p","l","i","c","i","t"," ","t","e","r","m","i","n",
    "a","t","i","o","n"," ","c","l","a","u","s","e"," ","f","o","u","n","d",
    ".">>

\* "No payment clause found."
NoPayment ==
  <<"N","o"," ","p","a","y","m","e","n","t"," ","c","l","a","u","s","e"," ",
    "f","o","u","n","d",".">>

\* "No relevant answer found."
NoRelevant ==
  <<"N","o"," ","r","e","l","e","v","a","n","t"," ","a","n","s","w","e","r",
    " ","f","o","u","n","d",".">>

wTerminate ==
  <<"t","e","r","m","i","n","a","t","e">>

wPayment ==
  <<"p","a","y","m","e","n","t">>

wFee ==
  <<"f","e","e">>

wPrice ==
  <<"p","r","i","c","e">>

riskKeywords ==
  << <<"i","n","d","e","m","n","i","f","y">>,
     <<"l","i","a","b","i","l","i","t","y">>,
     <<"p","e","n","a","l","t">>,
     <<"b","r","e","a","c","h">>,
     <<"t","e","r","m","i","n","a","t","e">>,
     <<"o","b","l","i","g","a","t","i","o","n">> >>


\* /terminate/i.test(s)
matchesTerminate(s) == includes(toLowerCase(s), wTerminate)

\* /(payment|fee|price)/i.test(s)
includesPayment(l) == includes(l, wPayment) \/ includes(l, wFee) \/ includes(l, wPrice)

matchesPayment(s) == includesPayment(toLowerCase(s))

\* x || fallback, for a string x: the empty string is falsy
orElse(x, fallback) == IF Len(x) = 0 THEN fallback ELSE x

\* as answerTo, the payment branch tested before the termination branch
answerToPaymentFirst(ql, original, summary) ==
  IF Len(trim(ql)) = 0 THEN AskPrompt
  ELSE IF includes(ql, wPayment) \/ includes(ql, wFee)
    THEN orElse(join(slice(SelectSeq(splitSentences(original), matchesPayment), 3)),
                NoPayment)
  ELSE IF includes(ql, wTerminate)
    THEN orElse(join(slice(SelectSeq(splitSentences(original), matchesTerminate), 3)),
                NoTermination)
  ELSE IF Len(summary) > 0 THEN join(slice(summary, 2))
  ELSE NoRelevant

\* as answerTo, the payment branch keeping every matching sentence
answerToAllPayment(ql, original, summary) ==
  IF Len(trim(ql)) = 0 THEN AskPrompt
  ELSE IF includes(ql, wTerminate)
    THEN orElse(join(slice(SelectSeq(splitSentences(original), matchesTerminate), 3)),
                NoTermination)
  ELSE IF includes(ql, wPayment) \/ includes(ql, wFee)
    THEN orElse(join(SelectSeq(splitSentences(original), matchesPayment)), NoPayment)
  ELSE IF Len(summary) > 0 THEN join(slice(summary, 2))
  ELSE NoRelevant

\* the body of simpleChatAnswer, ql being question.toLowerCase()
answerTo(ql, original, summary) ==
  IF Len(trim(ql)) = 0 THEN AskPrompt
  ELSE IF includes(ql, wTerminate)
    THEN orElse(join(slice(SelectSeq(splitSentences(original), matchesTerminate), 3)),
                NoTermination)
  ELSE IF includes(ql, wPayment) \/ includes(ql, wFee)
    THEN orElse(join(slice(SelectSeq(splitSentences(original), matchesPayment), 3)),
                NoPayment)
  ELSE IF Len(summary) > 0 THEN join(slice(summary, 2))
  ELSE NoRelevant

simpleChatAnswer(question, original, summary) ==
  answerTo(toLowerCase(question), original, summary)

\* riskKeywords.some(k => s.toLowerCase().includes(k))
includesRisk(l) == \E k \in 1..Len(riskKeywords) : includes(l, riskKeywords[k])

isRisky(s) == includesRisk(toLowerCase(s))

MaxRisks == 6

\* as detectRisks, without the cap
detectRisksUncapped(t) == SelectSeq(splitSentences(t), isRisky)

\* the callback of the useMemo
detectRisks(t) == slice(SelectSeq(splitSentences(t), isRisky), MaxRisks)

\* useMemo(..., [text]): every render holds the value computed from its text
risks == detectRisks(text)

(***************************************************************************)
(* The session: the state of App and its event handlers.                   *)
(***************************************************************************)
\* at most MaxChat exchanges are asked, at most MaxPending reads are in flight
MaxChat == 2

MaxPending == 2



\* "Fee due. Waiver of notice. Ok."
DocTerms ==
  <<"F","e","e"," ","d","u","e","."," ","W","a","i","v","e","r"," ","o","f",
    " ","n","o","t","i","c","e","."," ","O","k",".">>

\* "A shall indemnify B. This is short."
DocIndemnify ==
  <<"A"," ","s","h","a","l","l"," ","i","n","d","e","m","n","i","f","y"," ",
    "B","."," ","T","h","i","s"," ","i","s"," ","s","h","o","r","t",".">>

\* "fee?"
QuestionFee ==
  <<"f","e","e","?">>

\* what the user types or pastes into the textarea
EditDocs == {<<>>, DocTerms}

\* the files the user can pick; NoFile is a change event with an empty list
Files ==
  { [name |-> "a.txt", content |-> DocIndemnify],
    [name |-> "b.txt", content |-> DocTerms] }

NoFile == [name |-> "", content |-> <<>>]

\* what the user types into the question box
Questions == {<<" ">>, QuestionFee}

\* the positions of the range input, as the strings its value holds
SliderMin == 1

SliderMax == 10

DigitChars == <<"0","1","2","3","4","5","6","7","8","9">>

RECURSIVE toDecimal(_)
toDecimal(n) ==
  IF n < 10 THEN <<DigitChars[n + 1]>>
  ELSE toDecimal(n \div 10) \o <<DigitChars[(n % 10) + 1]>>

SliderValues == {toDecimal(n) : n \in SliderMin..SliderMax}

\* the positions the session moves the slider to: both ends
SliderSample == {toDecimal(SliderMin), toDecimal(SliderMax)}

\* Number(x): a state slot of maxPoints holds the number it was constructed
\* with, [num |-> 5], or the string a slider event stored, [str |-> "10"]
RECURSIVE parseDecimal(_)
parseDecimal(s) ==
  IF Len(s) = 0 THEN 0
  ELSE 10 * parseDecimal(SubSeq(s, 1, Len(s) - 1))
         + (CHOOSE d \in 0..9 : DigitChars[d + 1] = s[Len(s)])

Number(v) == IF "num" \in DOMAIN v THEN v.num ELSE parseDecimal(v.str)

DefaultPoints == 5

Init ==
  /\ text = <<>>
  /\ uploadedName = ""
  /\ summaryPoints = <<>>
  /\ chatLog = <<>>
  /\ q = <<>>
  /\ maxPoints = [num |-> DefaultPoints]
  /\ pending = <<>>

\* the textarea's onChange
EditText(d) ==
  /\ text' = d
  /\ UNCHANGED <<uploadedName, summaryPoints, chatLog, q, maxPoints, pending>>

\* as handleFile, an event without a file clearing the shown name
handleFileClearsName(f) ==
  IF f = NoFile
    THEN /\ uploadedName' = ""
         /\ UNCHANGED <<text, summaryPoints, chatLog, q, maxPoints, pending>>
    ELSE /\ Len(pending) < MaxPending
         /\ uploadedName' = f.name
         /\ pending' = Append(pending, f)
         /\ UNCHANGED <<text, summaryPoints, chatLog, q, maxPoints>>

\* handleFile: a change event of the file input, carrying f or no file
handleFile(f) ==
  IF f = NoFile THEN UNCHANGED vars
  ELSE /\ Len(pending) < MaxPending
       /\ uploadedName' = f.name
       /\ pending' = Append(pending, f)
       /\ UNCHANGED <<text, summaryPoints, chatLog, q, maxPoints>>

RemoveAt(s, i) == SubSeq(s, 1, i - 1) \o SubSeq(s, i + 1, Len(s))

\* as readerOnload, a read that is not the newest one being dropped
readerOnloadNewestOnly(i) ==
  /\ i \in 1..Len(pending)
  /\ text' = IF i = Len(pending) THEN pending[i].content ELSE text
  /\ pending' = RemoveAt(pending, i)
  /\ UNCHANGED <<uploadedName, summaryPoints, chatLog, q, maxPoints>>

\* reader.onload of the i-th read in flight: any of them may complete next
readerOnload(i) ==
  /\ i \in 1..Len(pending)
  /\ text' = pending[i].content
  /\ pending' = RemoveAt(pending, i)
  /\ UNCHANGED <<uploadedName, summaryPoints, chatLog, q, maxPoints>>

\* the range input's onChange
setMaxPoints(v) ==
  /\ maxPoints' = [str |-> v]
  /\ UNCHANGED <<text, uploadedName, summaryPoints, chatLog, q, pending>>

\* heuristicsSummary of the documents the session can hold, for every point
\* count: a definition without parameters is evaluated once, and the steps of
\* the session look the summary up instead of computing it again in each state
SessionTexts == EditDocs \cup {f.content : f \in Files}

summaryTable ==
  [t \in SessionTexts |-> [k \in SliderMin..SliderMax |-> heuristicsSummary(t, k)]]

summaryFor(t, k) ==
  IF t \in SessionTexts /\ k \in SliderMin..SliderMax
    THEN summaryTable[t][k]
    ELSE heuristicsSummary(t, k)

generateSummary ==
  /\ summaryPoints' = summaryFor(text, Number(maxPoints))
  /\ chatLog' = <<>>
  /\ UNCHANGED <<text, uploadedName, q, maxPoints, pending>>

\* the question box's onChange
setQ(x) ==
  /\ q' = x
  /\ UNCHANGED <<text, uploadedName, summaryPoints, chatLog, maxPoints, pending>>

\* as handleAsk, the new exchange put first
handleAskPrepends ==
  IF Len(trim(q)) = 0 THEN UNCHANGED vars
  ELSE /\ Len(chatLog) < MaxChat
       /\ chatLog' = <<[q |-> q, a |-> simpleChatAnswer(q, text, summaryPoints)]>> \o chatLog
       /\ q' = <<>>
       /\ UNCHANGED <<text, uploadedName, summaryPoints, maxPoints, pending>>

handleAsk ==
  IF Len(trim(q)) = 0 THEN UNCHANGED vars
  ELSE /\ Len(chatLog) < MaxChat
       /\ chatLog' = Append(chatLog, [q |-> q, a |-> simpleChatAnswer(q, text, summaryPoints)])
       /\ q' = <<>>
       /\ UNCHANGED <<text, uploadedName, summaryPoints, maxPoints, pending>>

Next ==
  \/ \E d \in EditDocs : EditText(d)
  \/ \E f \in Files \cup {NoFile} : handleFile(f)
  \/ \E i \in 1..MaxPending : readerOnload(i)
  \/ \E v \in SliderSample : setMaxPoints(v)
  \/ generateSummary
  \/ \E x \in Questions : setQ(x)
  \/ handleAsk

Spec == Init /\ [][Next]_vars

(***************************************************************************)
(* Properties of the session                                               *)
(***************************************************************************)
Range(f) == {f[i] : i \in DOMAIN f}

IsBlank(s) == Len(trim(s)) = 0

\* the step is a Simplify click that changes the state (generateSummary
\* changes the summary points and the chat history alone, which is tested
\* before the summary is computed)
SimplifyStep ==
  /\ UNCHANGED <<text, uploadedName, q, maxPoints, pending>>
  /\ <<summaryPoints, chatLog>>' # <<summaryPoints, chatLog>>
  /\ generateSummary

\* the step is an Ask click with a non-blank question (it empties the
\* question box, which is tested first)
AskStep ==
  /\ q' = <<>>
  /\ ~IsBlank(q)
  /\ handleAsk

\* C1, as stated: in every reachable state the held summary points are
\* sentences of the held document, and there are at most as many as the
\* configured point count.
C1_SummaryWithinDocument ==
  /\ Range(summaryPoints) \subseteq Range(splitSentences(text))
  /\ Len(summaryPoints) <= Number(maxPoints)

\* every point is the glossary-annotated form of a sentence of t, and there
\* are at most k of them
AnnotatedSelection(points, t, k) ==
  /\ Range(points) \subseteq {annotate(s) : s \in Range(splitSentences(t))}
  /\ Len(points) <= k

\* C1, amended: right after a Simplify click the held summary points are
\* glossary-annotated copies of sentences of the document held at that moment,
\* at most as many as the point count configured at that moment; no other
\* operation changes the summary points.
C1_SummaryAfterSimplify ==
  [][ /\ SimplifyStep => AnnotatedSelection(summaryPoints', text', Number(maxPoints'))
      /\ summaryPoints' # summaryPoints => SimplifyStep ]_vars

\* a Simplify with a count of 1 on a document of three sentences, and a
\* Simplify whose points carry a gloss and so are no sentences of the document
C1_Witness ==
  /\ summaryPoints # <<>>
  /\ summaryPoints = heuristicsSummary(text, Number(maxPoints))
  /\ \/ Len(summaryPoints) < Len(splitSentences(text))
     \/ ~(Range(summaryPoints) \subseteq Range(splitSentences(text)))

\* C2: the chat history changes only by an Ask with a non-blank question,
\* which appends exactly one exchange (the question and its answer) after the
\* earlier ones, and by Simplify, which empties it.
C2_ChatHistory ==
  [][ /\ SimplifyStep => chatLog' = <<>>
      /\ AskStep => /\ Len(chatLog') = Len(chatLog) + 1
                    /\ SubSeq(chatLog', 1, Len(chatLog)) = chatLog
                    /\ chatLog'[Len(chatLog')] =
                         [q |-> q, a |-> simpleChatAnswer(q, text, summaryPoints)]
      /\ chatLog' # chatLog => SimplifyStep \/ AskStep ]_vars

\* two different exchanges are held, the second asked after the first
C2_Witness ==
  /\ Len(chatLog) = 2
  /\ chatLog[1] # chatLog[2]
  /\ q = <<>>

\* C3: each completion of a read takes one read out of those in flight,
\* whichever it is, and overwrites the document with that read's content in
\* full; with two reads in flight either may complete first, and the document
\* ends up as the content of the one that completed last.
C3_LastCompletedReadWins ==
  [][ Len(pending') < Len(pending)
        => \E i \in 1..Len(pending) :
             /\ pending' = RemoveAt(pending, i)
             /\ text' = pending[i].content
             /\ UNCHANGED <<uploadedName, summaryPoints, chatLog, q, maxPoints>> ]_vars

\* a.txt was selected, then b.txt, and the read of a.txt completed last: no
\* read is left, the name shown is b.txt and the document is that of a.txt
C3_Witness ==
  /\ pending = <<>>
  /\ uploadedName = "b.txt"
  /\ text = DocIndemnify

\* C8: a file-selection event without a file changes nothing of the session
\* and starts no read.
C8_NoFileNoChange == [][ handleFile(NoFile) => UNCHANGED vars ]_vars

\* a state in which a change would show: a name is displayed, a read is in
\* flight, and a summary and an exchange are held
C8_Witness ==
  /\ uploadedName = "a.txt"
  /\ Len(pending) = 1
  /\ summaryPoints # <<>>
  /\ chatLog # <<>>

(***************************************************************************)
(* The documents of a session in which files replace a pasted document:    *)
(* the risk list over documents of up to MaxRiskSents sentences.           *)
(***************************************************************************)
MaxRiskSents == 7

\* "A BREACH."
SentBreach ==
  <<"A"," ","B","R","E","A","C","H",".">>

\* "Ok."
SentOk ==
  <<"O","k",".">>

\* "Intro. Breach. A PENALTY. Liability! Terminate? Obligation. We indemnify. Breach 2. End."
DocRisky ==
  <<"I","n","t","r","o","."," ","B","r","e","a","c","h","."," ","A"," ","P",
    "E","N","A","L","T","Y","."," ","L","i","a","b","i","l","i","t","y","!",
    " ","T","e","r","m","i","n","a","t","e","?"," ","O","b","l","i","g","a",
    "t","i","o","n","."," ","W","e"," ","i","n","d","e","m","n","i","f","y",
    "."," ","B","r","e","a","c","h"," ","2","."," ","E","n","d",".">>

\* every sequence of at most n members of pool, joined by single spaces
DocsOver(pool, n) == {join(ss) : ss \in UNION {[1..k -> pool] : k \in 0..n}}

RiskDocs == DocsOver({SentBreach, SentOk}, MaxRiskSents) \cup {DocRisky}

InitRisks ==
  /\ text \in RiskDocs
  /\ uploadedName = ""
  /\ summaryPoints = <<>>
  /\ chatLog = <<>>
  /\ q = <<>>
  /\ maxPoints = [num |-> DefaultPoints]
  /\ pending = <<>>

NextRisks ==
  \/ \E f \in Files \cup {NoFile} : handleFile(f)
  \/ \E i \in 1..MaxPending : readerOnload(i)

SpecRisks == InitRisks /\ [][NextRisks]_vars

\* the r-th least member of a set of indices
NthOf(S, r) == CHOOSE j \in S : Cardinality({k \in S : k < j}) = r - 1

\* the first n sentences, in document order, among those at the indices idx
FirstOf(sents, idx, n) ==
  [r \in 1..Min(n, Cardinality(idx)) |-> sents[NthOf(idx, r)]]

\* s contains one of the words, whatever the case of its letters
ContainsAny(s, words) == \E w \in words : includes(toLowerCase(s), w)

IndicesContaining(sents, words) == {j \in 1..Len(sents) : ContainsAny(sents[j], words)}

RiskListIs(sents, R) ==
  /\ Len(R) <= 6
  /\ \A r \in 1..Len(R) : ContainsAny(R[r], Range(riskKeywords))
  /\ R = FirstOf(sents, IndicesContaining(sents, Range(riskKeywords)), 6)

\* C4: the risk list has at most 6 entries, each a sentence of the held
\* document that contains one of the six risk keywords in any case, and they
\* are the first such sentences in document order.
C4_RiskList == RiskListIs(splitSentences(text), risks)

\* more than six sentences of the document are risky, one that is not comes
\* before a risky one, and the list holds the first six
C4_Witness ==
  /\ Len(risks) = 6
  /\ Len(SelectSeq(splitSentences(text), isRisky)) > 6
  /\ ~isRisky(splitSentences(text)[1])
  /\ uploadedName = ""

(***************************************************************************)
(* splitSentences over every text of at most MaxLen characters.            *)
(***************************************************************************)
MaxLen == 5

SplitChars == {"a", "B", ".", " ", "\n"}

SplitTexts == UNION {[1..n -> SplitChars] : n \in 0..MaxLen}

InitSplit ==
  /\ text \in SplitTexts
  /\ uploadedName = ""
  /\ summaryPoints = <<>>
  /\ chatLog = <<>>
  /\ q = <<>>
  /\ maxPoints = [num |-> DefaultPoints]
  /\ pending = <<>>

NextSplit == generateSummary

SpecSplit == InitSplit /\ [][NextSplit]_vars

RECURSIVE Flatten(_)
Flatten(ss) == IF Len(ss) = 0 THEN <<>> ELSE ss[1] \o Flatten(Tail(ss))

NotSpace(c) == ~IsSpace(c)

\* the characters of s that are not whitespace, in order
Content(s) == SelectSeq(s, NotSpace)

SentencesRebuild(t, sents) == Content(Flatten(sents)) = Content(replaceNewlines(t))

\* C7, as stated: every non-empty text splits into at least one sentence, and
\* the sentences put together are the text up to whitespace.
C7_SplitRebuilds ==
  text # <<>> => /\ Len(splitSentences(text)) > 0
                 /\ SentencesRebuild(text, splitSentences(text))

\* C7, amended: every text that holds a character other than whitespace splits
\* into at least one sentence; a text of whitespace alone splits into none;
\* and in both cases the sentences put together are the text up to whitespace.
C7_SplitRebuildsContent ==
  /\ Content(text) # <<>> => Len(splitSentences(text)) > 0
  /\ Content(text) = <<>> => splitSentences(text) = <<>>
  /\ SentencesRebuild(text, splitSentences(text))

\* a text with a newline that splits in two, summarised into its sentences
C7_Witness ==
  /\ Len(splitSentences(text)) = 2
  /\ "\n" \in Range(text)
  /\ summaryPoints = splitSentences(text)

(***************************************************************************)
(* heuristicsSummary over documents of at most MaxSents sentences and every*)
(* position of the slider.                                                 *)
(***************************************************************************)
MaxSents == 2

\* "This is short."
SentShort ==
  <<"T","h","i","s"," ","i","s"," ","s","h","o","r","t",".">>

\* "A shall indemnify B."
SentIndemnify ==
  <<"A"," ","s","h","a","l","l"," ","i","n","d","e","m","n","i","f","y"," ",
    "B",".">>

\* "Pay the fee."
SentPay ==
  <<"P","a","y"," ","t","h","e"," ","f","e","e",".">>

\* a sentence of more than VeryLongSentence characters and no keyword
SentLong == <<"X">> \o [i \in 1..VeryLongSentence |-> "x"] \o <<".">>

SummaryDocs == DocsOver({SentShort, SentIndemnify, SentPay, SentLong}, MaxSents)

PointSettings == {[num |-> DefaultPoints]} \cup {[str |-> v] : v \in SliderValues}

InitSummary ==
  /\ text \in SummaryDocs
  /\ uploadedName = ""
  /\ summaryPoints = <<>>
  /\ chatLog = <<>>
  /\ q = <<>>
  /\ maxPoints \in PointSettings
  /\ pending = <<>>

NextSummary == generateSummary

SpecSummary == InitSummary /\ [][NextSummary]_vars

\* C5: for every text and every point count k of 1..10, the summary has
\* exactly min(k, number of sentences) points, none when there is no sentence.
C5_SummaryLength ==
  /\ Number(maxPoints) \in SliderMin..SliderMax
  /\ Len(heuristicsSummary(text, Number(maxPoints)))
       = Min(Number(maxPoints), Len(splitSentences(text)))
  /\ Len(splitSentences(text)) = 0 => heuristicsSummary(text, Number(maxPoints)) = <<>>

\* a Simplify that cut the summary down to the point count
C5_Witness ==
  /\ summaryPoints # <<>>
  /\ Len(summaryPoints) = Number(maxPoints)
  /\ Number(maxPoints) < Len(splitSentences(text))

keywordCounts(sents) == Tuple([j \in 1..Len(sents) |-> keywordCount(sents[j])])

\* in the sorted order, a sentence with more keywords is before one with fewer
RankedByKeywords(kc, order) ==
  \A a, b \in 1..Len(order) : kc[order[a]] > kc[order[b]] => a < b

\* the point is the annotated form of a sentence with the most keywords
TopHasMostKeywords(sents, kc, point) ==
  \E j \in 1..Len(sents) :
    /\ point = annotate(sents[j])
    /\ \A k \in 1..Len(sents) : kc[j] >= kc[k]

KeywordsDominate(sents, kc, points, k) ==
  /\ RankedByKeywords(kc, sortedIndices(sents))
  /\ (points # <<>> /\ k = 1)
       => Len(points) = 1 /\ TopHasMostKeywords(sents, kc, points[1])

\* C10: a sentence with strictly more distinct keywords ranks before one with
\* fewer, whatever their lengths and positions; so with a point count of 1 the
\* summary is a sentence with the most keywords, annotated.
C10_KeywordsDominate ==
  KeywordsDominate(splitSentences(text), keywordCounts(splitSentences(text)),
                   summaryPoints, Number(maxPoints))

\* a very long sentence without keywords comes first, a short one with one
\* keyword second, and the summary of one point is the second
C10_Witness ==
  /\ text = SentLong \o <<" ">> \o SentPay
  /\ Number(maxPoints) = 1
  /\ summaryPoints = <<SentPay>>

(***************************************************************************)
(* simpleChatAnswer over documents of at most MaxAnswerSents sentences.    *)
(***************************************************************************)
MaxAnswerSents == 4

\* "Fee due."
SentFee ==
  <<"F","e","e"," ","d","u","e",".">>

\* "The PRICE is 5!"
SentPrice ==
  <<"T","h","e"," ","P","R","I","C","E"," ","i","s"," ","5","!">>

\* "You may Terminate."
SentTerminate ==
  <<"Y","o","u"," ","m","a","y"," ","T","e","r","m","i","n","a","t","e",".">>

\* "No fee is mentioned here. The weather is nice."
DocNoFee ==
  <<"N","o"," ","f","e","e"," ","i","s"," ","m","e","n","t","i","o","n","e",
    "d"," ","h","e","r","e","."," ","T","h","e"," ","w","e","a","t","h","e",
    "r"," ","i","s"," ","n","i","c","e",".">>

\* "No fee is mentioned here."
NoFeeSentence ==
  <<"N","o"," ","f","e","e"," ","i","s"," ","m","e","n","t","i","o","n","e",
    "d"," ","h","e","r","e",".">>

AnswerDocs ==
  DocsOver({SentFee, SentPrice, SentTerminate, SentOk}, MaxAnswerSents)
    \cup {DocNoFee}

\* "what is the fee?"
QuestionWhatFee ==
  <<"w","h","a","t"," ","i","s"," ","t","h","e"," ","f","e","e","?">>

\* "Payment terms?"
QuestionPayment ==
  <<"P","a","y","m","e","n","t"," ","t","e","r","m","s","?">>

\* "Terminate: any fee?"
QuestionTerminateFee ==
  <<"T","e","r","m","i","n","a","t","e",":"," ","a","n","y"," ","f","e","e",
    "?">>

\* "why"
QuestionOther ==
  <<"w","h","y">>

AnswerQuestions ==
  {<<>>, <<" ", "\n">>, QuestionWhatFee, QuestionPayment, QuestionTerminateFee, QuestionOther}

InitAnswer ==
  /\ text \in AnswerDocs
  /\ uploadedName = ""
  /\ summaryPoints = <<>>
  /\ chatLog = <<>>
  /\ q \in AnswerQuestions
  /\ maxPoints = [num |-> DefaultPoints]
  /\ pending = <<>>

NextAnswer ==
  \/ generateSummary
  \/ handleAsk

SpecAnswer == InitAnswer /\ [][NextAnswer]_vars

\* the question, lower-cased, names payment or a fee and not termination
AsksPayment(ql) ==
  /\ includes(ql, wPayment) \/ includes(ql, wFee)
  /\ ~includes(ql, wTerminate)

PaymentWords == {wPayment, wFee, wPrice}

\* the first up to 3 sentences at the indices idx, joined by single spaces
FirstThreeJoined(sents, idx) == join(FirstOf(sents, idx, 3))

PaymentAnswerIs(a, sents, idx) ==
  a = IF idx = {} THEN NoPayment ELSE FirstThreeJoined(sents, idx)

\* C6, as stated: to a payment question the answer is the fixed fallback
\* exactly when no sentence matches payment, fee or price, and otherwise the
\* first up to 3 matching sentences joined by a space; "what is the fee?" on
\* "No fee is mentioned here. The weather is nice." gets the fallback.
C6_PaymentAnswerFallback ==
  \A i \in 1..Len(chatLog) :
    AsksPayment(toLowerCase(chatLog[i].q))
      => /\ PaymentAnswerIs(chatLog[i].a, splitSentences(text),
                            IndicesContaining(splitSentences(text), PaymentWords))
         /\ chatLog[i].a = NoPayment
              <=> IndicesContaining(splitSentences(text), PaymentWords) = {}
         /\ (chatLog[i].q = QuestionWhatFee /\ text = DocNoFee)
              => chatLog[i].a = NoPayment

\* C6, amended: to a payment question the answer is the fixed fallback when no
\* sentence matches payment, fee or price, and otherwise the first up to 3
\* matching sentences joined by a space; "what is the fee?" on "No fee is
\* mentioned here. The weather is nice." gets "No fee is mentioned here.".
C6_PaymentAnswer ==
  \A i \in 1..Len(chatLog) :
    AsksPayment(toLowerCase(chatLog[i].q))
      => /\ PaymentAnswerIs(chatLog[i].a, splitSentences(text),
                            IndicesContaining(splitSentences(text), PaymentWords))
         /\ (chatLog[i].q = QuestionWhatFee /\ text = DocNoFee)
              => chatLog[i].a = NoFeeSentence

\* the payment question was asked of a document with four matching sentences
\* and answered with the first three
C6_Witness ==
  /\ Len(chatLog) = 1
  /\ chatLog[1].q = QuestionPayment
  /\ Cardinality(IndicesContaining(splitSentences(text), PaymentWords)) = 4
  /\ chatLog[1].a = join(SubSeq(splitSentences(text), 1, 3))

TerminationAnswerIs(a, sents, idx) ==
  a = IF idx = {} THEN NoTermination ELSE FirstThreeJoined(sents, idx)

SummaryAnswerIs(a, summary) ==
  a = IF Len(summary) > 0 THEN join(SubSeq(summary, 1, Min(2, Len(summary))))
      ELSE NoRelevant

\* the answer a to the question with lower-cased form ql is that of the first
\* branch that applies, in the order terminate, payment or fee, summary, generic
FirstBranchAnswers(ql, a, sents, summary) ==
  IF includes(ql, wTerminate)
    THEN TerminationAnswerIs(a, sents, IndicesContaining(sents, {wTerminate}))
  ELSE IF includes(ql, wPayment) \/ includes(ql, wFee)
    THEN PaymentAnswerIs(a, sents, IndicesContaining(sents, PaymentWords))
  ELSE SummaryAnswerIs(a, summary)

\* C9: the branches are tried in the order blank question, terminate, payment
\* or fee, summary, generic, and the first that applies alone gives the
\* answer: a blank question gets the prompt, a question with both "terminate"
\* and "fee" the termination answer, and the summary counts only for a
\* question with none of the three words.
C9_BranchOrder ==
  /\ IsBlank(q) => simpleChatAnswer(q, text, summaryPoints) = AskPrompt
  /\ \A i \in 1..Len(chatLog) :
       FirstBranchAnswers(toLowerCase(chatLog[i].q), chatLog[i].a,
                          splitSentences(text), summaryPoints)

\* a question with "terminate" and "fee", asked of a document with fee
\* sentences and none about termination once a summary is held, is answered
\* that no termination clause was found
C9_Witness ==
  /\ Len(chatLog) = 1
  /\ chatLog[1].q = QuestionTerminateFee
  /\ IndicesContaining(splitSentences(text), PaymentWords) # {}
  /\ IndicesContaining(splitSentences(text), {wTerminate}) = {}
  /\ summaryPoints # <<>>
  /\ chatLog[1].a = NoTermination

====
